---------------------------- MODULE Spec2Model ----------------------------
(* A model of the Analysis job class of Analysis.py: the constructor that  *)
(* merges three YAML configuration files, and the four methods load_data,  *)
(* compute_analysis, plot_data and notify_done that act on the object's    *)
(* two attributes, config and dataset.  The file system, the HTTP server   *)
(* and the plot backend are the environment: their answers are chosen      *)
(* nondeterministically from small sets.                                   *)
EXTENDS Integers, Sequences, FiniteSets, TLC

VARIABLES
    files,            \* the file system: path -> content of the YAML file, or Missing
    analysis_config,  \* the argument of Analysis(analysis_config)
    constructed,      \* TRUE once __init__ has returned an object
    config,           \* self.config (a dict: a function on the keys present)
    dataset,          \* self.dataset, or NoDataset while the attribute does not exist
    call              \* the last completed call: what it raised, returned and did

vars == <<files, analysis_config, constructed, config, dataset, call>>

----------------------------------------------------------------------------
(* Bounds of the model. *)

\* In the job specification, at most this many keys of the job file are
\* left out or set to null.
MaxDefects == 1
\* The response of the API holds at most this many repository records.
MaxRows == 2
\* In the configuration specification each file maps at most the first
\* MaxFileKeys keys of FileKeyOrder.
MaxFileKeys == 2

----------------------------------------------------------------------------
(* Values. *)

\* Python's None as a configuration value (YAML null); every other value
\* is a string token.
None == "<None>"

SystemPath == "configs/system_config.yml"
UserPath == "configs/user_config.yml"
JobPath == "configs/job_file.yml"
\* The paths the tests and the docstring construct the job with.
JobPathArgs == {"", "does-not-exists.yml", JobPath}

CONFIG_PATHS == <<SystemPath, UserPath>>

Missing == [kind |-> "missing", map |-> <<>>]
\* yaml.safe_load raises on the file's text.
InvalidYaml == [kind |-> "invalid", map |-> <<>>]
\* yaml.safe_load returns None (an empty document): not a mapping.
NullYaml == [kind |-> "null", map |-> <<>>]
Mapping(m) == [kind |-> "map", map |-> m]

FetchKeys == <<"api_base_path", "endpoint", "owner", "resource">>
PlotKeys == <<"figure_size_x", "figure_size_y", "plot_color", "plot_title",
              "plot_x_title", "plot_y_title">>
Range(s) == {s[i] : i \in DOMAIN s}
AllKeys == Range(FetchKeys) \cup Range(PlotKeys) \cup {"save_path", "ntfy_topic"}

NoException == [type |-> "", msg |-> ""]
Exception(m) == [type |-> "Exception", msg |-> m]
KeyError(k) == [type |-> "KeyError", msg |-> k]

NoDataset == [columns |-> {"<no attribute>"}, rows |-> <<>>]

\* The record of a call.  http: the requests issued; opened: the files
\* opened; swallowed: the exceptions caught and only logged; rendered: a
\* figure was created; savefig: the calls of plt.savefig and whether each
\* wrote its file.
NoResult == [kind |-> "None", values |-> <<>>]
NoCall == [op |-> "", arg |-> "", raised |-> NoException, result |-> NoResult,
           http |-> <<>>, opened |-> <<>>, swallowed |-> <<>>,
           rendered |-> FALSE, savefig |-> <<>>]

----------------------------------------------------------------------------
(* Analysis.__init__ *)

isfile(path) == path \in DOMAIN files /\ files[path].kind # "missing"

\* A merge that keeps the value already there.
update_KeepFirst(a, b) ==
    [k \in DOMAIN a \cup DOMAIN b |-> IF k \in DOMAIN a THEN a[k] ELSE b[k]]

\* dict.update: the keys of both, b's value where b has the key.
update(a, b) ==
    [k \in DOMAIN a \cup DOMAIN b |-> IF k \in DOMAIN b THEN b[k] ELSE a[k]]

\* What the body of the try block raises on one file: yaml.safe_load on
\* text that is not YAML, or config.update on a document that is no mapping.
LoadRaises(path) ==
    CASE files[path].kind = "invalid" -> "YAMLError"
      [] files[path].kind = "null" -> "TypeError"
      [] OTHER -> ""

\* The loop over paths: each file is opened; an exception of the try
\* block is caught, logged and printed, and the loop goes on.
RECURSIVE LoadConfigs(_, _, _)
LoadConfigs(paths, i, acc) ==
    IF i > Len(paths) THEN acc
    ELSE LET path == paths[i]
             err == LoadRaises(path)
             next == [config |-> IF err = "" THEN update(acc.config, files[path].map)
                                 ELSE acc.config,
                      opened |-> Append(acc.opened, path),
                      swallowed |-> IF err = "" THEN acc.swallowed
                                    ELSE Append(acc.swallowed, err)]
         IN LoadConfigs(paths, i + 1, next)

\* The chain without its last branch.
NotFound_NoUserCheck(path) ==
    IF ~isfile(path) THEN Exception("analysis_config file not found")
    ELSE IF ~isfile(SystemPath) THEN Exception("configs/system_config.yml not found")
    ELSE NoException

\* The if/elif chain of existence checks: the exception it raises, if any.
NotFound(path) ==
    IF ~isfile(path) THEN Exception("analysis_config file not found")
    ELSE IF ~isfile(SystemPath) THEN Exception("configs/system_config.yml not found")
    ELSE IF ~isfile(UserPath) THEN Exception("configs/user_config.yml not found")
    ELSE NoException

Analysis ==
    /\ call.op = ""
    /\ LET nf == NotFound(analysis_config)
           paths == CONFIG_PATHS \o <<analysis_config>>
           loaded == LoadConfigs(paths, 1,
                       [config |-> <<>>, opened |-> <<>>, swallowed |-> <<>>])
       IN IF nf # NoException
          THEN /\ call' = [NoCall EXCEPT !.op = "__init__", !.arg = analysis_config,
                                         !.raised = nf]
               /\ UNCHANGED <<constructed, config>>
          ELSE /\ constructed' = TRUE
               /\ config' = loaded.config
               /\ call' = [NoCall EXCEPT !.op = "__init__", !.arg = analysis_config,
                                         !.opened = loaded.opened,
                                         !.swallowed = loaded.swallowed]
    /\ UNCHANGED <<files, analysis_config, dataset>>

----------------------------------------------------------------------------
(* The checks of required configuration values. *)

\* The chain  config[k1] == None or config[k2] == None or ...  evaluated
\* left to right: a key that is not in the dict raises KeyError when it is
\* read, a None value ends the chain with True.
RECURSIVE AnyNone(_, _)
AnyNone(keys, i) ==
    IF i > Len(keys) THEN [raised |-> NoException, none |-> FALSE]
    ELSE IF keys[i] \notin DOMAIN config THEN [raised |-> KeyError(keys[i]), none |-> FALSE]
    ELSE IF config[keys[i]] = None THEN [raised |-> NoException, none |-> TRUE]
    ELSE AnyNone(keys, i + 1)

----------------------------------------------------------------------------
(* Analysis.load_data *)

Columns == <<"forks_count", "open_issues_count", "watchers_count">>

\* A cell of the data frame: <<v>>, or NaN where the record has no such field.
NaN == <<>>

\* pd.read_json on a JSON array of objects: the columns are the fields of
\* all records, a row has NaN where its record lacks the field.
read_json(records) ==
    LET cols == UNION {DOMAIN records[i] : i \in DOMAIN records}
    IN [columns |-> cols,
        rows |-> [i \in DOMAIN records |->
                    [c \in cols |-> IF c \in DOMAIN records[i]
                                    THEN <<records[i][c]>> ELSE NaN]]]

\* f'{api_base_path}/{endpoint}/{owner}/{resource}'
requestUrl ==
    config["api_base_path"] \o "/" \o config["endpoint"] \o "/" \o
    config["owner"] \o "/" \o config["resource"]

Get(url) == [method |-> "GET", url |-> url, data |-> "", title |-> ""]

\* The repository records a response is made of.
RepoRecords ==
    { [forks_count |-> 2, open_issues_count |-> 1, watchers_count |-> 10],
      [forks_count |-> 4, open_issues_count |-> 3, watchers_count |-> 20],
      [forks_count |-> 6, watchers_count |-> 30] }
JsonArrays == UNION {[1..n -> RepoRecords] : n \in 0..MaxRows}
\* What requests.get(url).text comes to: the request raises, or the body
\* is not a JSON table (read_json raises), or it is an array of records.
GetResponses ==
    {[kind |-> "ConnectionError", records |-> <<>>],
     [kind |-> "not json", records |-> <<>>]}
    \cup {[kind |-> "json", records |-> r] : r \in JsonArrays}

\* The dataset assigned before the body is parsed: a body that is not a
\* JSON table leaves an empty frame behind.
LoadOutcome_Partial(response) ==
    IF response.kind = "json"
    THEN [raised |-> NoException, dataset |-> read_json(response.records)]
    ELSE [raised |-> Exception("Failed to load dataset for analysis, check job config has correct values specified"),
          dataset |-> IF response.kind = "not json" THEN read_json(<<>>) ELSE dataset]

\* The try block: the dataset is assigned after both calls returned.
LoadOutcome(response) ==
    IF response.kind = "json"
    THEN [raised |-> NoException, dataset |-> read_json(response.records)]
    ELSE [raised |-> Exception("Failed to load dataset for analysis, check job config has correct values specified"),
          dataset |-> dataset]

load_data ==
    /\ constructed
    /\ \E response \in GetResponses :
         LET chk == AnyNone(FetchKeys, 1)
             out == LoadOutcome(response)
             this == [NoCall EXCEPT !.op = "load_data"]
         IN IF chk.raised # NoException
            THEN /\ call' = [this EXCEPT !.raised = chk.raised]
                 /\ UNCHANGED dataset
            ELSE IF chk.none
            THEN /\ call' = [this EXCEPT !.raised = Exception("Missing required job configurations, check job configurations")]
                 /\ UNCHANGED dataset
            ELSE /\ call' = [this EXCEPT !.raised = out.raised,
                                         !.http = <<Get(requestUrl)>>]
                 /\ dataset' = out.dataset
    /\ UNCHANGED <<files, analysis_config, constructed, config>>

----------------------------------------------------------------------------
(* Analysis.compute_analysis *)

\* The guard that never refuses.
hasattr_Always == TRUE

hasattr_dataset == dataset # NoDataset

DataNotLoaded == Exception("Data not loaded yet, analaysis cannot be done")

RECURSIVE Gcd(_, _)
Gcd(a, b) == IF b = 0 THEN a ELSE Gcd(b, a % b)

RECURSIVE SumCells(_, _, _)
SumCells(rows, c, i) ==
    IF i > Len(rows) THEN [sum |-> 0, count |-> 0]
    ELSE LET rest == SumCells(rows, c, i + 1)
         IN IF rows[i][c] = NaN THEN rest
            ELSE [sum |-> rest.sum + rows[i][c][1], count |-> rest.count + 1]

\* Series.mean(), which skips NaN: the sum of the values over their number
\* as a fraction <<numerator, denominator>> in lowest terms, and NaN for a
\* column without a value.
mean(df, c) ==
    LET t == SumCells(df.rows, c, 1)
        g == Gcd(t.sum, t.count)
    IN IF t.count = 0 THEN NaN ELSE <<t.sum \div g, t.count \div g>>

\* The mean of two of the three columns only.
ComputeOutcome_TwoMeans ==
    IF dataset = NoDataset THEN [raised |-> DataNotLoaded, result |-> NoResult]
    ELSE IF ~(Range(Columns) \subseteq dataset.columns)
    THEN [raised |-> KeyError("not in index"), result |-> NoResult]
    ELSE [raised |-> NoException,
          result |-> [kind |-> "Series",
                      values |-> [c \in {"forks_count", "open_issues_count"} |->
                                    mean(dataset, c)]]]

\* dataset[[...]] raises KeyError when a column is not in the frame.
ComputeOutcome ==
    IF ~hasattr_dataset THEN [raised |-> DataNotLoaded, result |-> NoResult]
    ELSE IF ~(Range(Columns) \subseteq dataset.columns)
    THEN [raised |-> KeyError("not in index"), result |-> NoResult]
    ELSE [raised |-> NoException,
          result |-> [kind |-> "Series",
                      values |-> [c \in Range(Columns) |-> mean(dataset, c)]]]

compute_analysis ==
    /\ constructed
    /\ call' = [NoCall EXCEPT !.op = "compute_analysis",
                              !.raised = ComputeOutcome.raised,
                              !.result = ComputeOutcome.result]
    /\ UNCHANGED <<files, analysis_config, constructed, config, dataset>>

----------------------------------------------------------------------------
(* Analysis.plot_data *)

Figure == [kind |-> "Figure", values |-> <<>>]

\* The save_path argument: left out (None), or a path.
SavePathArgs == {None, "local_file.png"}

\* The two ax.scatter calls read watchers_count, forks_count, then
\* watchers_count, open_issues_count: the first column the frame lacks
\* raises KeyError.
ScatterRaises ==
    IF "watchers_count" \notin dataset.columns THEN KeyError("watchers_count")
    ELSE IF "forks_count" \notin dataset.columns THEN KeyError("forks_count")
    ELSE IF "open_issues_count" \notin dataset.columns THEN KeyError("open_issues_count")
    ELSE NoException

\* The argument ignored: always the configured location.
save_location_ConfigOnly(save_path) == config["save_path"]

\* The location plt.savefig is called with.
save_location(save_path) ==
    IF save_path = None THEN config["save_path"] ELSE save_path

\* The try block around plt.savefig: savefig(None) raises, any other
\* location is written or fails as the file system decides; either way the
\* exception is caught.
SaveFig(location, writes) ==
    <<[location |-> location, written |-> location # None /\ writes]>>

plot_data ==
    /\ constructed
    /\ \E save_path \in SavePathArgs, writes \in BOOLEAN :
         LET chk == AnyNone(PlotKeys, 1)
             this == [NoCall EXCEPT !.op = "plot_data", !.arg = save_path]
         IN call' =
              IF ~hasattr_dataset THEN [this EXCEPT !.raised = DataNotLoaded]
              ELSE IF chk.raised # NoException THEN [this EXCEPT !.raised = chk.raised]
              ELSE IF chk.none
              THEN [this EXCEPT !.raised = Exception("Missing required configurations, check all config files")]
              ELSE IF ScatterRaises # NoException
              THEN [this EXCEPT !.raised = ScatterRaises, !.rendered = TRUE]
              ELSE IF "save_path" \notin DOMAIN config
              THEN [this EXCEPT !.raised = KeyError("save_path"), !.rendered = TRUE]
              ELSE [this EXCEPT !.rendered = TRUE, !.result = Figure,
                                !.savefig = SaveFig(save_location(save_path), writes),
                                !.swallowed = IF SaveFig(save_location(save_path), writes)[1].written
                                              THEN <<>> ELSE <<"savefig">>]
    /\ UNCHANGED <<files, analysis_config, constructed, config, dataset>>

----------------------------------------------------------------------------
(* Analysis.notify_done *)

Messages == {"Hello ntfy"}
title == "Ahmad_Hasan_DSI_BRS_Assignment Ntfy"

\* message.encode('utf-8')
encode(message) == "utf-8:" \o message

Post(topic, message) ==
    [method |-> "POST", url |-> "https://ntfy.sh/" \o topic, data |-> encode(message),
     title |-> title]

\* requests.post raises, or returns a response nobody reads.
PostResponses == {"ConnectionError", "200", "429"}

notify_done ==
    /\ constructed
    /\ \E message \in Messages, response \in PostResponses :
         LET this == [NoCall EXCEPT !.op = "notify_done", !.arg = message]
         IN call' =
              IF "ntfy_topic" \notin DOMAIN config
              THEN [this EXCEPT !.raised = KeyError("ntfy_topic")]
              ELSE IF config["ntfy_topic"] = None
              THEN [this EXCEPT !.raised = Exception("Missing ntfy.sh topic, specify it in system_config.yml")]
              ELSE [this EXCEPT !.http = <<Post(config["ntfy_topic"], message)>>,
                                !.swallowed = IF response = "ConnectionError"
                                              THEN <<"requests.post">> ELSE <<>>]
    /\ UNCHANGED <<files, analysis_config, constructed, config, dataset>>

----------------------------------------------------------------------------
(* The configuration specification: any three small files. *)

FileKeyOrder == <<"owner", "save_path", "ntfy_topic", "plot_color">>
FileKeys == {FileKeyOrder[i] : i \in 1..MaxFileKeys}
\* A file gives a key null or a value of its own, so that the merged value
\* tells which file it came from.
FileValues(path) == {None, "value of " \o path}
FileMaps(path) == UNION {[S -> FileValues(path)] : S \in SUBSET FileKeys}
FileContents(path) ==
    {Missing, InvalidYaml, NullYaml} \cup {Mapping(m) : m \in FileMaps(path)}

InitConfig ==
    /\ analysis_config \in JobPathArgs
    /\ \E s \in FileContents(SystemPath), u \in FileContents(UserPath),
          j \in FileContents(JobPath) :
            files = [p \in {SystemPath, UserPath, JobPath} |->
                       IF p = SystemPath THEN s ELSE IF p = UserPath THEN u ELSE j]
    /\ constructed = FALSE
    /\ config = <<>>
    /\ dataset = NoDataset
    /\ call = NoCall

NextConfig == Analysis

SpecConfig == InitConfig /\ [][NextConfig]_vars

----------------------------------------------------------------------------
(* The job specification: a job file that is the configuration of the    *)
(* end-to-end scenario with up to MaxDefects keys left out or null, over *)
(* empty system and user mappings; then the methods in any order.        *)

ScenarioConfig ==
    [k \in AllKeys |->
       CASE k = "api_base_path" -> "https://api.example.com"
         [] k = "endpoint" -> "orgs"
         [] k = "owner" -> "acme"
         [] k = "resource" -> "repos"
         [] k = "figure_size_x" -> "8"
         [] k = "figure_size_y" -> "6"
         [] k = "plot_color" -> "blue"
         [] k = "plot_title" -> "Engagement"
         [] k = "plot_x_title" -> "Watchers"
         [] k = "plot_y_title" -> "Count"
         [] k = "save_path" -> "out.png"
         [] OTHER -> "test-topic"]

\* ScenarioConfig without the keys of absent and with null for those of nulls.
Defective(absent, nulls) ==
    [k \in AllKeys \ absent |-> IF k \in nulls THEN None ELSE ScenarioConfig[k]]

JobConfigs ==
    {Defective(d \ n, n) : <<d, n>> \in
        {<<d, n>> \in (SUBSET AllKeys) \X (SUBSET AllKeys) :
            n \subseteq d /\ Cardinality(d) <= MaxDefects}}

Init ==
    /\ analysis_config = JobPath
    /\ \E job \in JobConfigs :
         files = [p \in {SystemPath, UserPath, JobPath} |->
                    IF p = JobPath THEN Mapping(job) ELSE Mapping(<<>>)]
    /\ constructed = FALSE
    /\ config = <<>>
    /\ dataset = NoDataset
    /\ call = NoCall

Next ==
    \/ Analysis
    \/ load_data
    \/ compute_analysis
    \/ plot_data
    \/ notify_done

Spec == Init /\ [][Next]_vars

----------------------------------------------------------------------------
(* The error taxonomy of the specification, as the exceptions the code    *)
(* raises for each.                                                       *)

ConfigurationNotFoundError(e) ==
    e \in {Exception("analysis_config file not found"),
           Exception("configs/system_config.yml not found"),
           Exception("configs/user_config.yml not found")}

MissingConfigurationError(e) ==
    e \in {Exception("Missing required job configurations, check job configurations"),
           Exception("Missing required configurations, check all config files"),
           Exception("Missing ntfy.sh topic, specify it in system_config.yml")}

DataNotLoadedError(e) == e = DataNotLoaded

DataLoadError(e) ==
    e = Exception("Failed to load dataset for analysis, check job config has correct values specified")

Failed(c) == c.raised # NoException

\* The key is not in the configuration, or its value is null.
Unset(k) == k \notin DOMAIN config \/ config[k] = None

ConfigFiles == {SystemPath, UserPath, analysis_config}

----------------------------------------------------------------------------
(* Claims about the constructor, under SpecConfig. *)

AllFilesAreMappings ==
    \A p \in ConfigFiles : isfile(p) /\ files[p].kind = "map"

\* The value the overlay order system, user, job gives key k.
Overlay(k) ==
    IF k \in DOMAIN files[analysis_config].map THEN files[analysis_config].map[k]
    ELSE IF k \in DOMAIN files[UserPath].map THEN files[UserPath].map[k]
    ELSE files[SystemPath].map[k]

\* C1: when the three files exist and each parses to a mapping, the
\* constructor returns a job whose config has exactly the keys of the three
\* files, each with the job file's value if the job file has the key,
\* otherwise the user file's, otherwise the system file's.
C1_MergePrecedence ==
    (call.op = "__init__" /\ AllFilesAreMappings) =>
        /\ constructed
        /\ ~Failed(call)
        /\ DOMAIN config = UNION {DOMAIN files[p].map : p \in ConfigFiles}
        /\ \A k \in DOMAIN config : config[k] = Overlay(k)

\* A job built from three mappings that all give the same key, the job
\* file null and the other two a value.
C1_Witness ==
    /\ call.op = "__init__" /\ AllFilesAreMappings /\ constructed
    /\ \E k \in FileKeys :
         /\ \A p \in ConfigFiles : k \in DOMAIN files[p].map
         /\ files[SystemPath].map[k] # None
         /\ files[UserPath].map[k] # None
         /\ files[analysis_config].map[k] = None
         /\ config[k] = None
    /\ \E k \in FileKeys :
         /\ k \in DOMAIN files[SystemPath].map
         /\ k \notin DOMAIN files[UserPath].map
         /\ k \notin DOMAIN files[analysis_config].map
         /\ config[k] = files[SystemPath].map[k]

\* C3: when the job path, the system path or the user path names no
\* existing file, the constructor raises the not-found error without having
\* opened any file, and no job (and no config) results.
C3_MissingFileFails ==
    (call.op = "__init__" /\ \E p \in ConfigFiles : ~isfile(p)) =>
        /\ ConfigurationNotFoundError(call.raised)
        /\ call.opened = <<>>
        /\ ~constructed
        /\ config = <<>>

\* The constructor has failed on the last check of the chain: only the
\* user file is missing.
C3_Witness ==
    /\ call.op = "__init__"
    /\ isfile(analysis_config) /\ isfile(SystemPath) /\ ~isfile(UserPath)
    /\ call.raised = Exception("configs/user_config.yml not found")
    /\ call.opened = <<>>

\* C4: when a file exists but does not parse to a mapping, the constructor
\* fails and returns no job.
C4_ParseFailureFails ==
    (call.op = "__init__"
       /\ (\A p \in ConfigFiles : isfile(p))
       /\ \E p \in ConfigFiles : files[p].kind \in {"invalid", "null"}) =>
        /\ Failed(call)
        /\ ~constructed

----------------------------------------------------------------------------
(* Claims about the methods, under Spec. *)

PlotOrCompute == {"compute_analysis", "plot_data"}

\* C2: a compute_analysis or plot_data call on a job without a dataset
\* raises the data-not-loaded error, returns nothing, issues no request,
\* creates no figure, writes nothing, and the job is still without a dataset.
C2_NeedsDataset ==
    [][(dataset = NoDataset /\ call'.op \in PlotOrCompute) =>
          /\ DataNotLoadedError(call'.raised)
          /\ call'.result = NoResult
          /\ ~call'.rendered
          /\ call'.savefig = <<>>
          /\ call'.http = <<>>
          /\ dataset' = NoDataset]_vars

\* plot_data has been refused on a job that has no dataset.
C2_Witness ==
    /\ constructed /\ dataset = NoDataset
    /\ call.op = "plot_data" /\ DataNotLoadedError(call.raised)

\* C5: a load_data call that issued its request and failed raises the
\* data-load error and leaves the dataset as it was; the dataset changes
\* only in a load_data call that raises nothing, and then to the frame parsed
\* from a whole response.
C5_LoadAllOrNothing ==
    [][/\ (call'.op = "load_data" /\ Failed(call')) => dataset' = dataset
       /\ (call'.op = "load_data" /\ Failed(call') /\ call'.http # <<>>) =>
              DataLoadError(call'.raised)
       /\ (dataset' # dataset) =>
              /\ call'.op = "load_data" /\ ~Failed(call')
              /\ \E r \in JsonArrays : dataset' = read_json(r)
       /\ (call'.op = "load_data" /\ ~Failed(call')) => dataset' # NoDataset]_vars

\* A load_data call has failed with the data-load error on a job that
\* still holds the dataset of an earlier call.
C5_Witness ==
    /\ call.op = "load_data" /\ DataLoadError(call.raised)
    /\ call.http # <<>>
    /\ dataset # NoDataset /\ Len(dataset.rows) > 0

\* C6: load_data with one of its four keys absent or null raises the
\* missing-configuration error and issues no request; with all four set it
\* issues exactly one GET, to base/endpoint/owner/resource.
C6_FetchConfigChecked ==
    call.op = "load_data" =>
        IF \E k \in Range(FetchKeys) : Unset(k)
        THEN MissingConfigurationError(call.raised) /\ call.http = <<>>
        ELSE call.http = <<Get(requestUrl)>>

Renderable == hasattr_dataset /\ Range(Columns) \subseteq dataset.columns

\* C7: plot_data on a loaded job with one of the six plot keys or
\* save_path absent or null raises the missing-configuration error, creates
\* no figure and writes nothing, whatever the save_path argument.
C7_PlotConfigChecked ==
    (call.op = "plot_data" /\ hasattr_dataset
       /\ \E k \in Range(PlotKeys) \cup {"save_path"} : Unset(k)) =>
        /\ MissingConfigurationError(call.raised)
        /\ ~call.rendered
        /\ call.savefig = <<>>

PlotConfigValid == \A k \in Range(PlotKeys) \cup {"save_path"} : ~Unset(k)

\* What a plot_data call that went through looks like: the figure returned,
\* nothing raised, one savefig call, at the argument if one was given and at
\* the configured save_path otherwise.
ReturnsFigure(c) ==
    /\ ~Failed(c)
    /\ c.result = Figure
    /\ c.rendered
    /\ Len(c.savefig) = 1
    /\ c.savefig[1].location = (IF c.arg # None THEN c.arg ELSE config["save_path"])

\* C8 as stated: with any dataset loaded and the plot configuration valid,
\* plot_data returns the figure.
C8_AlwaysReturnsFigure ==
    (call.op = "plot_data" /\ hasattr_dataset /\ PlotConfigValid) =>
        ReturnsFigure(call)

\* C8, amended: with a dataset loaded that has the three columns and the
\* plot configuration valid, plot_data returns the figure after one savefig
\* call, at the argument if given and else at the configured path, whether
\* or not the file was written.
C8_ReturnsFigure ==
    (call.op = "plot_data" /\ Renderable /\ PlotConfigValid) =>
        ReturnsFigure(call)

\* plot_data has returned the figure although the write, to the path
\* given as argument, failed.
C8_Witness ==
    /\ call.op = "plot_data" /\ Renderable /\ PlotConfigValid
    /\ call.arg = "local_file.png"
    /\ call.result = Figure
    /\ call.savefig = <<[location |-> "local_file.png", written |-> FALSE]>>

\* C9: notify_done raises the missing-configuration error and posts
\* nothing when ntfy_topic is absent or null; otherwise it posts once and
\* raises nothing, whether or not the POST went through.
C9_NotifyBestEffort ==
    call.op = "notify_done" =>
        IF Unset("ntfy_topic")
        THEN MissingConfigurationError(call.raised) /\ call.http = <<>>
        ELSE ~Failed(call) /\ call.http = <<Post(config["ntfy_topic"], call.arg)>>

\* The values of column c, NaN cells left out, summed and counted.
ColumnTotal(c) ==
    LET present == {i \in DOMAIN dataset.rows : dataset.rows[i][c] # NaN}
        RECURSIVE Sum(_)
        Sum(S) == IF S = {} THEN 0
                  ELSE LET i == CHOOSE i \in S : TRUE
                       IN dataset.rows[i][c][1] + Sum(S \ {i})
    IN [sum |-> Sum(present), count |-> Cardinality(present)]

\* m is the mean of column c: a fraction equal to sum/count, or NaN when
\* the column has no value.
IsMeanOf(m, c) ==
    LET t == ColumnTotal(c)
    IN IF t.count = 0 THEN m = NaN
       ELSE m # NaN /\ m[2] > 0 /\ m[1] * t.count = t.sum * m[2]

ThreeMeans(c) ==
    /\ ~Failed(c)
    /\ c.result.kind = "Series"
    /\ DOMAIN c.result.values = Range(Columns)
    /\ \A col \in Range(Columns) : IsMeanOf(c.result.values[col], col)

Readers == {"compute_analysis", "plot_data", "notify_done"}

\* No call changes the configuration of a constructed job, and
\* compute_analysis, plot_data and notify_done leave the dataset alone.
FrameStep ==
    /\ constructed => config' = config
    /\ call'.op \in Readers => dataset' = dataset

\* C10 as stated: the frame, and every compute_analysis call on a job
\* with a dataset returns the three means.
C10_AlwaysThreeMeans ==
    [][/\ FrameStep
       /\ (call'.op = "compute_analysis" /\ hasattr_dataset) => ThreeMeans(call')]_vars

\* C10, amended: the frame, and every compute_analysis call on a job whose
\* dataset has the three columns returns the three means of that dataset (so
\* the same result as long as the dataset is unchanged); on a dataset that
\* lacks one of the columns every call raises KeyError.
C10_FrameAndThreeMeans ==
    [][/\ FrameStep
       /\ (call'.op = "compute_analysis" /\ Renderable) => ThreeMeans(call')
       /\ (call'.op = "compute_analysis" /\ hasattr_dataset /\ ~Renderable) =>
              call'.raised = KeyError("not in index")]_vars

\* compute_analysis has returned the means 3, 2 and 15 of the two-row
\* dataset of the end-to-end scenario.
C10_Witness ==
    /\ call.op = "compute_analysis" /\ Renderable
    /\ Len(dataset.rows) = 2
    /\ call.result.kind = "Series"
    /\ call.result.values["forks_count"] = <<3, 1>>
    /\ call.result.values["open_issues_count"] = <<2, 1>>
    /\ call.result.values["watchers_count"] = <<15, 1>>

=============================================================================
